---- MODULE Spec2Model ----
(***************************************************************************)
(* Model of the key-value store of src/src/main.rs: the two backends       *)
(* (JsonBackendStorage on kv.db, BsonBackendStorage on kv.bson) and the    *)
(* operations of KV layered on them.  Strings are sequences of one-letter  *)
(* strings; a HashMap<String,String> is a function from a finite set of    *)
(* keys to values; a backing file is what its bytes say: whether it        *)
(* exists, the length header (Bson), the members in the order they were    *)
(* written, and whether the closing brace / terminator was written.        *)
(***************************************************************************)
EXTENDS Naturals, Sequences, FiniteSets

\* file: the files of the working directory by name, "kv.db" and "kv.bson"
\*       (main.rs 185, 197, 202, 211, 224, 231).
\* kv:   the store, KV { storage } (main.rs 236-243).
\* last: the command main is running and what the store returned to it
\*       (main.rs 11-54); op is "none" between two commands.
\* twin: the same command given to a store of the other serializer.
\* procs: invocations of the program that run at the same time, each at its
\*       own place between load_keys and the end of write_keys.
VARIABLES file, kv, last, twin, procs

vars == <<file, kv, last, twin, procs>>

(* ------------------------------ universes ------------------------------ *)

\* Commands started in a behaviour of concurrent invocations.
MaxCmds == 2

\* Longest value an append may build.
MaxValLen == 2

Backends == {"Json", "Bson"}

\* Mutant of Path: both backends use the same file name.
PathShared(b) == "kv.db"

\* The file each backend reads and writes.
Paths == {"kv.db", "kv.bson"}
Path(b) == IF b = "Json" THEN "kv.db" ELSE "kv.bson"

\* Keys given on the command line (the empty string is a legal argument).
Keys == {<<>>, <<"a">>, <<"a", "b">>}

\* Values given to set, and suffixes given to append.
Values == {<<>>, <<"x">>}
Suffixes == {<<>>, <<"y">>}

\* Patterns given to get_keys: literals, the wildcard, an unbalanced group.
Patterns == {<<>>, <<"a">>, <<"b">>, <<"a", ".">>, <<"(">>, <<"a", "(">>}

\* The invocations that may run at the same time.
Procs == {"p1", "p2"}

\* Outcome of the file system calls of one invocation: all succeed ("ok"),
\* opening or creating the file is refused ("denied"), or the file is created
\* and writing its bytes fails ("write_fails").  A file that is not there is
\* no fault: it is the state NoFile.
IoOk == {"ok"}
IoAny == {"ok", "denied", "write_fails"}

(* ------------------------------ HashMap -------------------------------- *)

EmptyMap == <<>>

\* Mutant of Insert: an existing entry keeps its value.
InsertIfAbsent(map, key, value) ==
    [x \in (DOMAIN map) \cup {key} |-> IF x \in DOMAIN map THEN map[x] ELSE value]

\* Mutant of Insert: the entry goes into a new map.
InsertFresh(map, key, value) == [x \in {key} |-> value]

Insert(map, key, value) ==
    [x \in (DOMAIN map) \cup {key} |-> IF x = key THEN value ELSE map[x]]

Remove(map, key) == [x \in (DOMAIN map) \ {key} |-> map[x]]

\* The orders in which a HashMap of these keys may be iterated.
IterOrders(S) ==
    {o \in [1..Cardinality(S) -> S] : \A i, j \in DOMAIN o : o[i] = o[j] => i = j}

(* ------------------------------ files ---------------------------------- *)

NoFile == [exists |-> FALSE, size |-> 0, members |-> <<>>, closed |-> FALSE]

\* A file that was created or truncated and received no byte.
EmptyFile == [exists |-> TRUE, size |-> 0, members |-> <<>>, closed |-> FALSE]

Members(map, order) == [i \in DOMAIN order |-> [k |-> order[i], v |-> map[order[i]]]]

\* Decoding into a HashMap: a later member replaces an earlier one of the
\* same key.
RECURSIVE FromMembers(_)
FromMembers(ms) ==
    IF ms = <<>> THEN EmptyMap
    ELSE LET n == Len(ms)
         IN Insert(FromMembers(SubSeq(ms, 1, n - 1)), ms[n].k, ms[n].v)

\* Bson length header: int32 size, per member a type byte, the key with its
\* terminator, an int32 length and the value with its terminator, then 0x00.
RECURSIVE ElementBytes(_)
ElementBytes(ms) ==
    IF ms = <<>> THEN 0
    ELSE 1 + (Len(Head(ms).k) + 1) + 4 + (Len(Head(ms).v) + 1) + ElementBytes(Tail(ms))

DocSize(ms) == 4 + ElementBytes(ms) + 1

JsonText(map, order) ==
    [exists |-> TRUE, size |-> 0, members |-> Members(map, order), closed |-> TRUE]

BsonDocument(map, order) ==
    [exists |-> TRUE, size |-> DocSize(Members(map, order)),
     members |-> Members(map, order), closed |-> TRUE]

(* ------------------------------ results -------------------------------- *)

Ok(v) == [kind |-> "Ok", key |-> <<>>, val |-> v]
Err(kind) == [kind |-> kind, key |-> <<>>, val |-> <<>>]
KeyNotFound(key) == [kind |-> "KeyNotFound", key |-> key, val |-> <<>>]
Panic == [kind |-> "Panic", key |-> <<>>, val |-> <<>>]

(* ------------------------------ backends ------------------------------- *)

\* Mutant of JsonLoadKeys: a file that is not there is an error like any other.
JsonLoadKeysNoBootstrap(f, io) ==
    IF ~f.exists \/ io = "denied" THEN Err("GenericError")
    ELSE IF ~f.closed THEN Err("DeserializationError")
    ELSE Ok(FromMembers(f.members))

\* Mutant of JsonLoadKeys: a file that does not decode counts as empty.
JsonLoadKeysLenient(f, io) ==
    IF ~f.exists THEN Ok(EmptyMap)
    ELSE IF io = "denied" THEN Err("GenericError")
    ELSE IF ~f.closed THEN Ok(EmptyMap)
    ELSE Ok(FromMembers(f.members))

JsonLoadKeys(f, io) ==
    IF ~f.exists THEN Ok(EmptyMap)
    ELSE IF io = "denied" THEN Err("GenericError")
    ELSE IF ~f.closed THEN Err("DeserializationError")
    ELSE Ok(FromMembers(f.members))

\* std::fs::write: create or truncate, then write_all; both report errors.
JsonWrite(f, text, io) ==
    IF io = "denied" THEN [res |-> Err("IOError"), file |-> f]
    ELSE IF io = "write_fails" THEN [res |-> Err("IOError"), file |-> EmptyFile]
    ELSE [res |-> Ok(<<>>), file |-> text]

JsonWriteKeys(f, map, io) ==
    {JsonWrite(f, JsonText(map, o), io) : o \in IterOrders(DOMAIN map)}

JsonClear(f, io) == JsonWrite(f, JsonText(EmptyMap, <<>>), io)

BsonLoadKeys(f, io) ==
    IF ~f.exists THEN Ok(EmptyMap)
    ELSE IF io = "denied" THEN Err("GenericError")
    ELSE IF ~f.closed \/ f.size # DocSize(f.members) THEN Err("DeserializeError")
    ELSE Ok(FromMembers(f.members))

\* File::create, then to_writer into a BufWriter that is dropped without a
\* flush: the bytes are written by the drop, which discards a write error.
BsonWrite(f, doc, io) ==
    IF io = "denied" THEN [res |-> Err("IOError"), file |-> f]
    ELSE IF io = "write_fails" THEN [res |-> Ok(<<>>), file |-> EmptyFile]
    ELSE [res |-> Ok(<<>>), file |-> doc]

BsonWriteKeys(f, map, io) ==
    {BsonWrite(f, BsonDocument(map, o), io) : o \in IterOrders(DOMAIN map)}

\* std::fs::remove_file, an error when the file is not there.
BsonClear(f, io) ==
    IF ~f.exists \/ io = "denied" THEN [res |-> Err("IOError"), file |-> f]
    ELSE [res |-> Ok(<<>>), file |-> NoFile]

load_keys(b, f, io) == IF b = "Json" THEN JsonLoadKeys(f, io) ELSE BsonLoadKeys(f, io)

write_keys(b, f, map, io) ==
    IF b = "Json" THEN JsonWriteKeys(f, map, io) ELSE BsonWriteKeys(f, map, io)

clear(b, f, io) == IF b = "Json" THEN JsonClear(f, io) ELSE BsonClear(f, io)

(* ------------------------------ regex ---------------------------------- *)

\* Regex::new: an opening group that is never closed does not compile.
RegexNew(pattern) ==
    IF \E i \in DOMAIN pattern : pattern[i] = "(" THEN Err("RegexError") ELSE Ok(pattern)

MatchesAt(pattern, s, at) ==
    \A j \in DOMAIN pattern : pattern[j] = "." \/ pattern[j] = s[at + j]

\* Mutant of is_match: the pattern has to cover the whole of s.
is_matchWhole(pattern, s) == Len(pattern) = Len(s) /\ MatchesAt(pattern, s, 0)

\* Regex::is_match: the pattern occurs somewhere in s.
is_match(pattern, s) ==
    \E at \in 0..Len(s) : at + Len(pattern) <= Len(s) /\ MatchesAt(pattern, s, at)

(* ------------------------------ KV ------------------------------------- *)

\* An operation's outcome: its result, the backing file it leaves, and the
\* maps it handed to write_keys (none or one).
Outcome(res, f, written) == [res |-> res, file |-> f, written |-> written]

\* self.storage.write_keys(map)?; Ok(())
Persist(b, f, map, io) == {Outcome(w.res, w.file, <<map>>) : w \in write_keys(b, f, map, io)}

KVget_keys(b, f, pattern, io) ==
    LET loaded == load_keys(b, f, io)
    IN IF loaded.kind # "Ok" THEN {Outcome(loaded, f, <<>>)}
       ELSE IF RegexNew(pattern).kind # "Ok" THEN {Outcome(Panic, f, <<>>)}
       ELSE LET map == loaded.val
                hits(o) == SelectSeq(o, LAMBDA x : is_match(pattern, x))
            IN {Outcome(Ok(hits(o)), f, <<>>) : o \in IterOrders(DOMAIN map)}

\* Mutant of KVappend: the new text is put in front of the old value.
KVappendInFront(b, f, key, value, io) ==
    LET loaded == load_keys(b, f, io)
    IN IF loaded.kind # "Ok" THEN {Outcome(loaded, f, <<>>)}
       ELSE LET map == loaded.val
            IN IF key \in DOMAIN map
               THEN Persist(b, f, Insert(map, key, value \o map[key]), io)
               ELSE {Outcome(KeyNotFound(key), f, <<>>)}

KVappend(b, f, key, value, io) ==
    LET loaded == load_keys(b, f, io)
    IN IF loaded.kind # "Ok" THEN {Outcome(loaded, f, <<>>)}
       ELSE LET map == loaded.val
            IN IF key \in DOMAIN map
               THEN Persist(b, f, Insert(map, key, map[key] \o value), io)
               ELSE {Outcome(KeyNotFound(key), f, <<>>)}

\* Mutant of KVrename: the map is written back before the key is looked at.
KVrenameWritesFirst(b, f, key, new_key, io) ==
    LET loaded == load_keys(b, f, io)
    IN IF loaded.kind # "Ok" THEN {Outcome(loaded, f, <<>>)}
       ELSE LET map == loaded.val
            IN IF key \in DOMAIN map
               THEN Persist(b, f, Insert(Remove(map, key), new_key, map[key]), io)
               ELSE {Outcome(KeyNotFound(key), w.file, <<map>>) :
                         w \in write_keys(b, f, map, io)}

\* Mutant of KVrename: the old key is not removed.
KVrenameKeepsKey(b, f, key, new_key, io) ==
    LET loaded == load_keys(b, f, io)
    IN IF loaded.kind # "Ok" THEN {Outcome(loaded, f, <<>>)}
       ELSE LET map == loaded.val
            IN IF key \in DOMAIN map
               THEN Persist(b, f, Insert(map, new_key, map[key]), io)
               ELSE {Outcome(KeyNotFound(key), f, <<>>)}

\* Mutant of KVrename: the value is inserted first, then the old key removed.
KVrenameInsertFirst(b, f, key, new_key, io) ==
    LET loaded == load_keys(b, f, io)
    IN IF loaded.kind # "Ok" THEN {Outcome(loaded, f, <<>>)}
       ELSE LET map == loaded.val
            IN IF key \in DOMAIN map
               THEN Persist(b, f, Remove(Insert(map, new_key, map[key]), key), io)
               ELSE {Outcome(KeyNotFound(key), f, <<>>)}

KVrename(b, f, key, new_key, io) ==
    LET loaded == load_keys(b, f, io)
    IN IF loaded.kind # "Ok" THEN {Outcome(loaded, f, <<>>)}
       ELSE LET map == loaded.val
            IN IF key \in DOMAIN map
               THEN Persist(b, f, Insert(Remove(map, key), new_key, map[key]), io)
               ELSE {Outcome(KeyNotFound(key), f, <<>>)}

\* Mutant of KVexists: the map it loaded is written back.
KVexistsWritesBack(b, f, key, io) ==
    LET loaded == load_keys(b, f, io)
    IN IF loaded.kind # "Ok" THEN {Outcome(loaded, f, <<>>)}
       ELSE {Outcome(Ok(key \in DOMAIN loaded.val), w.file, <<loaded.val>>) :
                 w \in write_keys(b, f, loaded.val, io)}

KVexists(b, f, key, io) ==
    LET loaded == load_keys(b, f, io)
    IN IF loaded.kind # "Ok" THEN {Outcome(loaded, f, <<>>)}
       ELSE {Outcome(Ok(key \in DOMAIN loaded.val), f, <<>>)}

\* Mutant of KVdelete: removing a key that is not there is no error.
KVdeleteAbsentOk(b, f, key, io) ==
    LET loaded == load_keys(b, f, io)
    IN IF loaded.kind # "Ok" THEN {Outcome(loaded, f, <<>>)}
       ELSE Persist(b, f, Remove(loaded.val, key), io)

KVdelete(b, f, key, io) ==
    LET loaded == load_keys(b, f, io)
    IN IF loaded.kind # "Ok" THEN {Outcome(loaded, f, <<>>)}
       ELSE LET map == loaded.val
            IN IF key \in DOMAIN map
               THEN Persist(b, f, Remove(map, key), io)
               ELSE {Outcome(KeyNotFound(key), f, <<>>)}

KVclear(b, f, io) ==
    LET c == clear(b, f, io) IN {Outcome(c.res, c.file, <<>>)}

KVget(b, f, key, io) ==
    LET loaded == load_keys(b, f, io)
    IN IF loaded.kind # "Ok" THEN {Outcome(loaded, f, <<>>)}
       ELSE LET map == loaded.val
            IN IF key \in DOMAIN map
               THEN {Outcome(Ok(map[key]), f, <<>>)}
               ELSE {Outcome(KeyNotFound(key), f, <<>>)}

\* Mutant of KVset: the entry is written alone, not into the loaded map.
KVsetAlone(b, f, key, value, io) ==
    LET loaded == load_keys(b, f, io)
    IN IF loaded.kind # "Ok" THEN {Outcome(loaded, f, <<>>)}
       ELSE Persist(b, f, Insert(EmptyMap, key, value), io)

KVset(b, f, key, value, io) ==
    LET loaded == load_keys(b, f, io)
    IN IF loaded.kind # "Ok" THEN {Outcome(loaded, f, <<>>)}
       ELSE Persist(b, f, Insert(loaded.val, key, value), io)

(* ------------------------------ actions -------------------------------- *)

\* No command is running: main has returned.
Idle ==
    [op |-> "none", key |-> <<>>, arg |-> <<>>, io |-> "ok", res |-> Ok(<<>>),
     written |-> <<>>, pre |-> NoFile]

\* The backing file of the store's backend.
Stored == file[Path(kv.storage)]

\* One command of main: the operation runs on the store's backend, and
\* `last` is the command with the result main receives from it, the maps it
\* handed to write_keys and the backing file it started from.
Invoke(op, key, arg, io, outcomes) ==
    /\ \E o \in outcomes :
        /\ file' = [file EXCEPT ![Path(kv.storage)] = o.file]
        /\ last' = [op |-> op, key |-> key, arg |-> arg, io |-> io, res |-> o.res,
                    written |-> o.written, pre |-> Stored]
    /\ UNCHANGED <<kv, twin, procs>>

\* The value the key holds in the backing file, <<>> when it holds none.
Held(key) ==
    LET loaded == load_keys(kv.storage, Stored, "ok")
    IN IF loaded.kind = "Ok" /\ key \in DOMAIN loaded.val THEN loaded.val[key] ELSE <<>>

CmdGet(io) ==
    /\ last.op = "none"
    /\ \E key \in Keys : Invoke("get", key, <<>>, io, KVget(kv.storage, Stored, key, io))

CmdSet(io) ==
    /\ last.op = "none"
    /\ \E key \in Keys, value \in Values :
        Invoke("set", key, value, io, KVset(kv.storage, Stored, key, value, io))

CmdClear(io) ==
    /\ last.op = "none"
    /\ Invoke("clear", <<>>, <<>>, io, KVclear(kv.storage, Stored, io))

CmdDel(io) ==
    /\ last.op = "none"
    /\ \E key \in Keys : Invoke("delete", key, <<>>, io, KVdelete(kv.storage, Stored, key, io))

CmdExists(io) ==
    /\ last.op = "none"
    /\ \E key \in Keys : Invoke("exists", key, <<>>, io, KVexists(kv.storage, Stored, key, io))

CmdRename(io) ==
    /\ last.op = "none"
    /\ \E key \in Keys, new_key \in Keys :
        Invoke("rename", key, new_key, io, KVrename(kv.storage, Stored, key, new_key, io))

CmdAppend(io) ==
    /\ last.op = "none"
    /\ \E key \in Keys, value \in Suffixes :
        /\ Len(Held(key)) + Len(value) <= MaxValLen
        /\ Invoke("append", key, value, io, KVappend(kv.storage, Stored, key, value, io))

CmdKeys(io) ==
    /\ last.op = "none"
    /\ \E pattern \in Patterns :
        Invoke("keys", <<>>, pattern, io, KVget_keys(kv.storage, Stored, pattern, io))

\* main prints the result (or the error) and the process ends.
Return ==
    /\ last.op # "none"
    /\ last' = Idle
    /\ UNCHANGED <<file, kv, twin, procs>>

\* The commands of one behaviour all name the same serializer.
Init ==
    /\ file = [p \in Paths |-> NoFile]
    /\ kv \in [storage : Backends]
    /\ last = Idle
    /\ twin = Idle
    /\ procs = [p \in Procs |-> Idle]

Run(ios) ==
    \E io \in ios :
        \/ CmdGet(io)
        \/ CmdSet(io)
        \/ CmdClear(io)
        \/ CmdDel(io)
        \/ CmdExists(io)
        \/ CmdRename(io)
        \/ CmdAppend(io)
        \/ CmdKeys(io)

\* Every file system call succeeds, apart from opening a file that is not there.
Next == Run(IoOk) \/ Return

Spec == Init /\ [][Next]_vars

\* File system calls may also fail: an open refused, a write that fails.
NextFault == Run(IoAny) \/ Return

SpecFault == Init /\ [][NextFault]_vars

\* What earlier commands with the other serializer may have left in its file:
\* nothing, an empty mapping, one entry.
SeedMaps == {EmptyMap, Insert(EmptyMap, <<"a">>, <<"x">>)}

Seeds(b) == {NoFile} \cup {w.file : w \in UNION {write_keys(b, NoFile, m, "ok") : m \in SeedMaps}}

\* The store starts on a missing file while the file of the other backend
\* holds what earlier commands left there.
InitBoth ==
    /\ kv \in [storage : Backends]
    /\ \E seed \in UNION {Seeds(b) : b \in Backends \ {kv.storage}} :
           file = [p \in Paths |-> IF p = Path(kv.storage) THEN NoFile ELSE seed]
    /\ last = Idle
    /\ twin = Idle
    /\ procs = [p \in Procs |-> Idle]

SpecBoth == InitBoth /\ [][Next]_vars

(* ------------------------------ concurrent invocations ---------------- *)

\* An invocation that has not started: pc is its place in main, res what the
\* store returns to it, pending the file its write_keys is about to leave,
\* seen the backing file it loaded, prev the invocations that had returned
\* when it started, runs the commands it has started so far.
Resting ==
    [pc |-> "idle", op |-> "none", key |-> <<>>, arg |-> <<>>, res |-> Ok(<<>>),
     pending |-> NoFile, seen |-> NoFile, prev |-> {}, runs |-> 0]

\* The command lines main accepts.
Commands ==
    [op : {"get", "delete", "exists"}, key : Keys, arg : {<<>>}]
        \cup [op : {"set"}, key : Keys, arg : Values]
        \cup [op : {"rename"}, key : Keys, arg : Keys]
        \cup [op : {"append"}, key : Keys, arg : Suffixes]
        \cup [op : {"keys"}, key : {<<>>}, arg : Patterns]
        \cup [op : {"clear"}, key : {<<>>}, arg : {<<>>}]

\* main: the operation a command line runs, on the backing file f.
Call(c, b, f) ==
    CASE c.op = "get" -> KVget(b, f, c.key, "ok")
      [] c.op = "set" -> KVset(b, f, c.key, c.arg, "ok")
      [] c.op = "clear" -> KVclear(b, f, "ok")
      [] c.op = "delete" -> KVdelete(b, f, c.key, "ok")
      [] c.op = "exists" -> KVexists(b, f, c.key, "ok")
      [] c.op = "rename" -> KVrename(b, f, c.key, c.arg, "ok")
      [] c.op = "append" -> KVappend(b, f, c.key, c.arg, "ok")
      [] c.op = "keys" -> KVget_keys(b, f, c.arg, "ok")

\* The operation ends in std::fs::write or File::create plus a write: every
\* write_keys, and the clear of the Json backend.
Truncates(c, b, o) == o.written # <<>> \/ (c.op = "clear" /\ b = "Json")

RECURSIVE Started(_)
Started(ps) ==
    IF ps = {} THEN 0
    ELSE LET p == CHOOSE x \in ps : TRUE IN procs[p].runs + Started(ps \ {p})

\* An invocation starts and runs up to the point where it opens the backing
\* file for writing: load_keys and the change of the map, or all of the
\* operation when it writes nothing (remove_file of the Bson clear included).
Begin(p) ==
    /\ procs[p].pc = "idle"
    /\ Started(Procs) < MaxCmds
    /\ \E c \in Commands :
        /\ c.op = "append" => Len(Held(c.key)) + Len(c.arg) <= MaxValLen
        /\ \E o \in Call(c, kv.storage, Stored) :
            LET opens == Truncates(c, kv.storage, o)
            IN /\ procs' = [procs EXCEPT ![p] =
                      [pc |-> IF opens THEN "create" ELSE "done",
                       op |-> c.op, key |-> c.key, arg |-> c.arg, res |-> o.res,
                       pending |-> o.file, seen |-> Stored,
                       prev |-> {q \in Procs : procs[q].pc = "done"},
                       runs |-> @.runs + 1]]
               /\ file' = IF opens THEN file
                          ELSE [file EXCEPT ![Path(kv.storage)] = o.file]
    /\ UNCHANGED <<kv, last, twin>>

\* File::create, or the open inside std::fs::write: the file is there and
\* has no bytes.
Create(p) ==
    /\ procs[p].pc = "create"
    /\ procs' = [procs EXCEPT ![p].pc = "write"]
    /\ file' = [file EXCEPT ![Path(kv.storage)] = EmptyFile]
    /\ UNCHANGED <<kv, last, twin>>

\* What a write from offset 0 leaves of a file other bytes were written to in
\* the meantime: its own bytes, or its own bytes followed by the rest of
\* the others.
Torn(f) == [f EXCEPT !.closed = FALSE]

\* write_all, or the drop of the BufWriter: the bytes reach the file that was
\* opened.  When the name was unlinked in the meantime they reach no name.
Write(p) ==
    /\ procs[p].pc = "write"
    /\ procs' = [procs EXCEPT ![p].pc = "done"]
    /\ \E f \in (IF Stored = EmptyFile THEN {procs[p].pending}
                 ELSE IF ~Stored.exists THEN {Stored}
                 ELSE {procs[p].pending, Torn(procs[p].pending)}) :
           file' = [file EXCEPT ![Path(kv.storage)] = f]
    /\ UNCHANGED <<kv, last, twin>>

\* main prints the result and the process ends.
Finish(p) ==
    /\ procs[p].pc = "done"
    /\ procs' = [q \in Procs |->
                    IF q = p THEN [Resting EXCEPT !.runs = procs[p].runs]
                    ELSE [procs[q] EXCEPT !.prev = @ \ {p}]]
    /\ UNCHANGED <<file, kv, last, twin>>

InitConc ==
    /\ file = [p \in Paths |-> NoFile]
    /\ kv \in [storage : Backends]
    /\ last = Idle
    /\ twin = Idle
    /\ procs = [p \in Procs |-> Resting]

NextConc == \E p \in Procs : Begin(p) \/ Create(p) \/ Write(p) \/ Finish(p)

SpecConc == InitConc /\ [][NextConc]_vars

(* ------------------------------ the two backends side by side --------- *)

\* What main receives from the store for command c, run on the file pre.
Received(c, o, pre) ==
    [op |-> c.op, key |-> c.key, arg |-> c.arg, io |-> "ok", res |-> o.res,
     written |-> o.written, pre |-> pre]

\* The same command line given once with -s Json and once with -s Bson:
\* `last` is the run on kv.db, `twin` the run on kv.bson.
Both ==
    /\ last.op = "none"
    /\ \E c \in Commands :
        /\ c.op = "append" => Len(Held(c.key)) + Len(c.arg) <= MaxValLen
        /\ \E oj \in Call(c, "Json", file[Path("Json")]),
              ob \in Call(c, "Bson", file[Path("Bson")]) :
            /\ file' = [file EXCEPT ![Path("Json")] = oj.file, ![Path("Bson")] = ob.file]
            /\ last' = Received(c, oj, file[Path("Json")])
            /\ twin' = Received(c, ob, file[Path("Bson")])
    /\ UNCHANGED <<kv, procs>>

\* Both runs have printed their result.
BothReturn ==
    /\ last.op # "none"
    /\ last' = Idle
    /\ twin' = Idle
    /\ UNCHANGED <<file, kv, procs>>

InitPair ==
    /\ file = [p \in Paths |-> NoFile]
    /\ kv = [storage |-> "Json"]
    /\ last = Idle
    /\ twin = Idle
    /\ procs = [p \in Procs |-> Idle]

NextPair == Both \/ BothReturn

SpecPair == InitPair /\ [][NextPair]_vars

(* ------------------------------ properties ----------------------------- *)

\* What the operations return, whatever file they leave.
Results(outcomes) == {o.res : o \in outcomes}

\* What load_keys returned to the command that just ran, and what it
\* returns to the next one.
Before == load_keys(kv.storage, last.pre, "ok")
After == load_keys(kv.storage, Stored, "ok")

\* C1: set(k, v) with a non-empty key k succeeds, and a get(k) that follows
\* it returns exactly v, whatever the backing file held before (no file, no
\* value for k, another value for k) and also when v is the empty string.
C1_GetAfterSet ==
    (last.op = "set" /\ last.key # <<>>) =>
        /\ last.res = Ok(<<>>)
        /\ Results(KVget(kv.storage, Stored, last.key, "ok")) = {Ok(last.arg)}

\* A set of the empty string over a key that held "x" has just returned.
C1_Witness ==
    /\ last.op = "set" /\ last.key = <<"a", "b">> /\ last.arg = <<>>
    /\ last.res.kind = "Ok"
    /\ Before.kind = "Ok" /\ last.key \in DOMAIN Before.val
    /\ Before.val[last.key] = <<"x">>

\* C2: when the key is absent from the persisted mapping (also with an empty
\* mapping and with no backing file), get, delete, append and rename fail
\* with KeyNotFound carrying that key, and exists returns false.
C2_NotFound ==
    (last.op # "none" /\ Before.kind = "Ok" /\ last.key \notin DOMAIN Before.val) =>
        /\ last.op \in {"get", "delete", "append", "rename"} =>
               last.res = KeyNotFound(last.key)
        /\ last.op = "exists" => last.res = Ok(FALSE)

\* A rename of an absent key has just failed on a store that holds other keys.
C2_Witness ==
    /\ last.op = "rename" /\ last.key = <<"a">> /\ last.arg = <<"a", "b">>
    /\ last.res.kind = "KeyNotFound"
    /\ Before.kind = "Ok" /\ DOMAIN Before.val = {<<>>, <<"a", "b">>}

\* C3: append(k, y) on a key holding x succeeds and get(k) then returns x
\* followed by y; on an absent key it fails with KeyNotFound and the key is
\* still absent.
C3_Append ==
    (last.op = "append" /\ Before.kind = "Ok") =>
        IF last.key \in DOMAIN Before.val
        THEN /\ last.res = Ok(<<>>)
             /\ Results(KVget(kv.storage, Stored, last.key, "ok"))
                    = {Ok(Before.val[last.key] \o last.arg)}
        ELSE /\ last.res = KeyNotFound(last.key)
             /\ After.kind = "Ok" /\ last.key \notin DOMAIN After.val

\* "y" has just been appended to a key that held "x".
C3_Witness ==
    /\ last.op = "append" /\ last.arg = <<"y">> /\ last.res.kind = "Ok"
    /\ Before.kind = "Ok" /\ last.key \in DOMAIN Before.val
    /\ Before.val[last.key] = <<"x">>
    /\ After.kind = "Ok" /\ After.val[last.key] = <<"x", "y">>

\* C4: rename(a, b) with a present and b another key succeeds whether or not
\* b is present; afterwards b holds the value a held, get(a) fails with
\* KeyNotFound, and the mapping has one key fewer exactly when b was present.
C4_Rename ==
    (/\ last.op = "rename" /\ Before.kind = "Ok"
     /\ last.key \in DOMAIN Before.val /\ last.arg # last.key) =>
        /\ last.res = Ok(<<>>)
        /\ After.kind = "Ok" /\ last.arg \in DOMAIN After.val
        /\ After.val[last.arg] = Before.val[last.key]
        /\ Results(KVget(kv.storage, Stored, last.key, "ok")) = {KeyNotFound(last.key)}
        /\ Cardinality(DOMAIN After.val) + (IF last.arg \in DOMAIN Before.val THEN 1 ELSE 0)
               = Cardinality(DOMAIN Before.val)

\* A rename onto a present key holding another value has just returned.
C4_Witness ==
    /\ last.op = "rename" /\ last.res.kind = "Ok" /\ last.arg # last.key
    /\ Before.kind = "Ok" /\ DOMAIN Before.val = Keys
    /\ Before.val[last.arg] # Before.val[last.key]
    /\ After.kind = "Ok" /\ Cardinality(DOMAIN After.val) = 2

\* C5: clear succeeds from every storage state (a mapping, an empty mapping,
\* no backing file), on both backends, and a load that follows returns the
\* empty mapping; so a clear right after a clear succeeds as well.
C5_ClearIdempotent ==
    last.op = "clear" => (last.res = Ok(<<>>) /\ After = Ok(EmptyMap))

\* C6: with no backing file load_keys returns the empty mapping and no error;
\* get, exists and get_keys return on a missing file what they return on the
\* store a clear has just left; a set on a missing file succeeds.
C6_MissingFile ==
    /\ ~Stored.exists => After = Ok(EmptyMap)
    /\ (last.op = "clear" /\ last.res.kind = "Ok") =>
           /\ \A key \in Keys :
                  /\ Results(KVget(kv.storage, NoFile, key, "ok"))
                         = Results(KVget(kv.storage, Stored, key, "ok"))
                  /\ Results(KVexists(kv.storage, NoFile, key, "ok"))
                         = Results(KVexists(kv.storage, Stored, key, "ok"))
           /\ \A pattern \in Patterns :
                  Results(KVget_keys(kv.storage, NoFile, pattern, "ok"))
                      = Results(KVget_keys(kv.storage, Stored, pattern, "ok"))
    /\ (last.op = "set" /\ ~last.pre.exists) => last.res = Ok(<<>>)

\* A clear has just emptied a mapping and left a backing file behind.
C6_Witness ==
    /\ last.op = "clear" /\ last.res.kind = "Ok"
    /\ last.pre.members # <<>> /\ Stored.exists

\* C7: when write_keys(M) returns success the backing file decodes to M, on
\* both backends; so after a successful set, delete, rename or append the
\* file holds the mapping the operation wrote and nothing of what the file
\* held before.
C7_RoundTrip ==
    (last.written # <<>> /\ last.res.kind = "Ok") => After = Ok(last.written[1])

\* C8: get_keys with a pattern that does not compile returns an
\* InvalidPattern error to its caller, in every storage state.
C8_InvalidPattern ==
    (last.op = "keys" /\ RegexNew(last.arg).kind # "Ok") =>
        last.res.kind = "InvalidPattern"

\* The pattern occurs in s: some stretch of s has the pattern's length and
\* agrees with it letter by letter, "." standing for any letter.
Occurs(pattern, s) ==
    \E from \in 1..(Len(s) + 1), to \in 0..Len(s) :
        /\ to - from + 1 = Len(pattern)
        /\ \A j \in 1..Len(pattern) : pattern[j] \in {".", SubSeq(s, from, to)[j]}

\* C9: for a pattern that compiles, get_keys returns the stored keys in which
\* the pattern occurs anywhere: each of them, each once, and no other key.
C9_PatternListing ==
    (last.op = "keys" /\ RegexNew(last.arg).kind = "Ok" /\ Before.kind = "Ok") =>
        /\ last.res.kind = "Ok"
        /\ {last.res.val[i] : i \in DOMAIN last.res.val}
               = {key \in DOMAIN Before.val : Occurs(last.arg, key)}
        /\ \A i, j \in DOMAIN last.res.val : last.res.val[i] = last.res.val[j] => i = j

\* Pattern "a" over the keys "", "a" and "ab" has just listed "a" and "ab".
C9_Witness ==
    /\ last.op = "keys" /\ last.arg = <<"a">> /\ last.res.kind = "Ok"
    /\ Before.kind = "Ok" /\ DOMAIN Before.val = Keys
    /\ Len(last.res.val) = 2

\* C10: a delete, append or rename that fails with KeyNotFound has not called
\* write_keys: the backing file is as it was, with the same bytes, and a file
\* that was not there has not been created.
C10_NoPersist ==
    (last.op \in {"delete", "append", "rename"} /\ last.res.kind = "KeyNotFound") =>
        (last.written = <<>> /\ Stored = last.pre)

\* An append to an absent key has just failed and there is still no file.
C10_Witness ==
    /\ last.op = "append" /\ last.res.kind = "KeyNotFound"
    /\ ~last.pre.exists /\ ~Stored.exists

\* C14: after any sequence of operations every key of the persisted mapping
\* is a non-empty string and no key is stored twice.
C14_KeyInvariant ==
    After.kind = "Ok" =>
        /\ \A key \in DOMAIN After.val : key # <<>>
        /\ \A i, j \in DOMAIN Stored.members :
               Stored.members[i].k = Stored.members[j].k => i = j

\* C15: get, exists and get_keys, whether they succeed or fail, call neither
\* write_keys nor clear: the backing file is the one they found, and a file
\* that was not there is still not there.
C15_ReadOnly ==
    last.op \in {"get", "exists", "keys"} =>
        (last.written = <<>> /\ Stored = last.pre)

\* A get has just failed on a store without a backing file, and there is
\* still none.
C15_Witness ==
    /\ last.op = "get" /\ last.res.kind = "KeyNotFound"
    /\ ~last.pre.exists /\ ~Stored.exists

\* The keys an operation is about.
Touched == IF last.op = "rename" THEN {last.key, last.arg} ELSE {last.key}

\* C18: a successful set, append, delete or rename changes the entries of
\* its own keys only: every other key that was present is present with the
\* same value, and no other key appears.
C18_Frame ==
    (/\ last.op \in {"set", "append", "delete", "rename"}
     /\ last.res.kind = "Ok" /\ Before.kind = "Ok") =>
        /\ After.kind = "Ok"
        /\ \A key \in ((DOMAIN Before.val) \cup (DOMAIN After.val)) \ Touched :
               /\ key \in DOMAIN Before.val /\ key \in DOMAIN After.val
               /\ After.val[key] = Before.val[key]
        /\ last.op = "delete" => last.key \notin DOMAIN After.val
        /\ last.op = "set" => After.val[last.key] = last.arg

\* A delete has just removed one of three keys.
C18_Witness ==
    /\ last.op = "delete" /\ last.res.kind = "Ok"
    /\ Before.kind = "Ok" /\ DOMAIN Before.val = Keys
    /\ After.kind = "Ok" /\ Cardinality(DOMAIN After.val) = 2

\* C19: rename(k, k) of a present key succeeds and leaves the persisted
\* mapping as it was: the same keys with the same values.
C19_RenameSelf ==
    (/\ last.op = "rename" /\ last.arg = last.key
     /\ Before.kind = "Ok" /\ last.key \in DOMAIN Before.val) =>
        (last.res = Ok(<<>>) /\ After = Before)

\* A key holding "x" among three keys has just been renamed onto itself.
C19_Witness ==
    /\ last.op = "rename" /\ last.arg = last.key /\ last.res.kind = "Ok"
    /\ Before.kind = "Ok" /\ DOMAIN Before.val = Keys
    /\ Before.val[last.key] = <<"x">>

\* The file is there and its bytes are no complete document of the format.
Undecodable(b, f) ==
    f.exists /\ (~f.closed \/ (b = "Bson" /\ f.size # DocSize(f.members)))

DecodeError(b) == IF b = "Json" THEN "DeserializationError" ELSE "DeserializeError"

\* C16: when the backing file exists and cannot be opened, or cannot be
\* decoded, every operation that loads fails with that I/O or deserialization
\* error (not with KeyNotFound, not as an empty store) and leaves the file as
\* it is; an undecodable file stays undecodable until a clear.
C16_LoadFailure ==
    /\ (last.op \notin {"none", "clear"} /\ last.pre.exists /\ last.io = "denied") =>
           /\ last.res = Err("GenericError")
           /\ last.written = <<>> /\ Stored = last.pre
    /\ (/\ last.op \notin {"none", "clear"} /\ last.io # "denied"
        /\ Undecodable(kv.storage, last.pre)) =>
           /\ last.res = Err(DecodeError(kv.storage))
           /\ last.written = <<>> /\ Stored = last.pre
    /\ (/\ last.op # "none" /\ Undecodable(kv.storage, last.pre)
        /\ ~Undecodable(kv.storage, Stored)) =>
           last.op = "clear"

\* A set has just failed on a file that does not decode.
C16_Witness ==
    /\ last.op = "set" /\ last.io = "ok" /\ Undecodable(kv.storage, last.pre)
    /\ last.res.kind = "DeserializationError"
    /\ Stored = last.pre

\* C13: an operation of the Json store (clear included) leaves kv.bson as it
\* is, and an operation of the Bson store leaves kv.db as it is.
C13_Isolation ==
    [][/\ kv.storage = "Json" => file'["kv.bson"] = file["kv.bson"]
       /\ kv.storage = "Bson" => file'["kv.db"] = file["kv.db"]]_vars

\* The Json store has just been cleared while kv.bson holds an entry.
C13_Witness ==
    /\ kv.storage = "Json" /\ last.op = "clear" /\ last.res.kind = "Ok"
    /\ last.pre.members # <<>>
    /\ file["kv.bson"].members # <<>>

\* An invocation that has loaded the backing file and has returned.
Loader(p) == procs[p].pc = "done" /\ procs[p].op \notin {"none", "clear"}

\* C11: an invocation that loads the backing file while another one is
\* inside write_keys or clear finds the whole old or the whole new content:
\* the file it loads decodes, and it does not end in a decode error.
C11_AtomicPersist ==
    \A p \in Procs :
        Loader(p) =>
            /\ ~Undecodable(kv.storage, procs[p].seen)
            /\ procs[p].res.kind \notin {"DeserializationError", "DeserializeError"}

\* A set that has returned Ok.
SetDone(p) == procs[p].pc = "done" /\ procs[p].op = "set" /\ procs[p].res.kind = "Ok"

\* The mapping set(key, arg) of p builds from the file p loaded.
Built(p) == Insert(load_keys(kv.storage, procs[p].seen, "ok").val, procs[p].key, procs[p].arg)

\* C12: of two sets on different keys that both returned Ok: when q was
\* started after p had returned and loaded the file p left, the persisted
\* mapping holds both entries; when both loaded the same file (load1, load2,
\* persist1, persist2), the persisted mapping is the one a single set built,
\* so the other entry is in it only if it had been there before.
C12_LostUpdate ==
    \A p \in Procs : \A q \in Procs \ {p} :
        (SetDone(p) /\ SetDone(q) /\ procs[p].key # procs[q].key) =>
            /\ (p \in procs[q].prev /\ procs[q].seen = procs[p].pending) =>
                   /\ After.kind = "Ok"
                   /\ {procs[p].key, procs[q].key} \subseteq DOMAIN After.val
                   /\ After.val[procs[p].key] = procs[p].arg
                   /\ After.val[procs[q].key] = procs[q].arg
            /\ (procs[p].seen = procs[q].seen /\ After.kind = "Ok") =>
                   After.val \in {Built(p), Built(q)}

\* set(a, x) and set(ab, x) were started on the same missing file and both
\* returned Ok; the persisted mapping holds ab and not a.
C12_Witness ==
    /\ SetDone("p1") /\ SetDone("p2")
    /\ procs["p1"].key = <<"a">> /\ procs["p2"].key = <<"a", "b">>
    /\ procs["p1"].seen = NoFile /\ procs["p2"].seen = NoFile
    /\ After.kind = "Ok" /\ DOMAIN After.val = {<<"a", "b">>}

\* The same two sets run one after the other.
C12_InTurn ==
    /\ SetDone("p1") /\ SetDone("p2")
    /\ procs["p1"].key = <<"a">> /\ procs["p2"].key = <<"a", "b">>
    /\ "p1" \in procs["p2"].prev /\ procs["p2"].seen = procs["p1"].pending
    /\ After.kind = "Ok" /\ DOMAIN After.val = {<<"a">>, <<"a", "b">>}

\* The elements of a sequence.
Range(seq) == {seq[i] : i \in DOMAIN seq}

\* The two runs of a command returned the same: the same error, or the same
\* value (for get_keys the same keys, the order being that of the HashMap).
SameResult ==
    /\ last.res.kind = twin.res.kind
    /\ last.res.key = twin.res.key
    /\ IF last.op = "keys" THEN Range(last.res.val) = Range(twin.res.val)
       ELSE last.res.val = twin.res.val

\* kv.db and kv.bson hold the same mapping.
SameMapping == load_keys("Json", file["kv.db"], "ok") = load_keys("Bson", file["kv.bson"], "ok")

\* C17: the same commands given to the Json store and to the Bson store,
\* both starting without a backing file, return step by step the same result
\* or the same kind of error and leave the same mapping.
C17_Equivalence == last.op # "none" => SameResult /\ SameMapping

\* The two stores differ in nothing but the result of clear.
C17_ApartFromClear ==
    /\ SameMapping
    /\ (last.op \notin {"none", "clear"}) => SameResult

====
